---- MODULE Spec2Model ----
(***************************************************************************)
(* examples/cpptest/main.cpp: one static Hello component, three signal     *)
(* handlers attached with set_handler, then sixtyfps::run(&component).     *)
(*                                                                         *)
(* main.cpp is modelled statement by statement (pc).  The collaborators    *)
(* it calls and that live outside main.cpp (Hello's constructor, Signal::  *)
(* set_handler / emit, Property::get / set, sixtyfps::run's event loop)    *)
(* are modelled from the specification's description of them.              *)
(*                                                                         *)
(* The counter property is the specification's "mutable integer property": *)
(* its C++ type is declared in the generated hello.h, not in main.cpp, so  *)
(* it is an unbounded integer here.                                        *)
(***************************************************************************)
EXTENDS Integers, Sequences, FiniteSets, TLC

\* ---------------------------------------------------------------- bounds
\* The Hello constructor gives counter an initial value in -MaxInit..MaxInit.
MaxInit == 2
\* The run loop delivers at most this many signals.
MaxFirings == 4
\* The client of SpecSignal calls set_handler at most this many times,
MaxSetHandler == 2
\* and emits at most this many signals.
MaxEmits == 2

\* ------------------------------------------------------------- vocabulary
\* What `component` names before the static is constructed; instances are 1, 2, ...
NoInstance == 0

Signals == {"foobar", "plus_clicked", "minus_clicked"}

\* The three lambdas of main.cpp.
Lambdas == {"foobar_lambda", "plus_lambda", "minus_lambda"}

NoHandler == "none"

InitValues == (0 - MaxInit)..MaxInit

VARIABLES
    pc,          \* main's position: the statement it executes next
    component,   \* the static variable `component`: the instance it names
    constructed, \* how many Hello instances have been constructed so far
    heap,        \* live Hello instances: id -> [counter, foobar, plus_clicked, minus_clicked]
    c0,          \* the value Hello's constructor gives counter
    runArg,      \* the instance passed to sixtyfps::run
    runCalls,    \* how many times sixtyfps::run has been called
    frames,      \* handler invocations in progress, innermost first
    out,         \* lines written to std::cout
    delivered,   \* the signals fired so far, in delivery order
    registered,  \* per signal, the handler of the latest set_handler call
    nset,        \* how many set_handler calls have been made
    hist         \* completed handler invocations, in completion order

vars == <<pc, component, constructed, heap, c0, runArg, runCalls, frames, out,
          delivered, registered, nset, hist>>

\* ------------------------------------------------------ Hello (hello.h)
\* A freshly constructed Hello: counter at its initial value, no handler in
\* any signal slot.  A slot is the list of handlers an emit invokes.
NewHello(c) ==
    [counter |-> c, foobar |-> <<>>, plus_clicked |-> <<>>, minus_clicked |-> <<>>]

\* Property<int>::get
PropertyGet(inst) == heap[inst].counter

\* Property<int>::set: the heap after the write
PropertySet(inst, v) == [heap EXCEPT ![inst].counter = v]

\* A multi-subscriber slot: set_handler adds the handler to those already there.
SetHandlerSlotAppend(slot, h) == Append(slot, h)

\* Signal::set_handler on a slot: the new handler replaces what was there.
SetHandlerSlot(slot, h) == <<h>>

set_handler(inst, sig, h) ==
    /\ heap' = [heap EXCEPT ![inst][sig] = SetHandlerSlot(@, h)]
    /\ registered' = [registered EXCEPT ![sig] = h]
    /\ nset' = nset + 1

\* ------------------------------------------------- handler invocations
\* The first step of each lambda's body.
FirstStep(h) == IF h = "foobar_lambda" THEN "print" ELSE "get"

\* One invocation of handler h for signal sig emitted on instance inst.
\* tmp and target are the lambda's locals, unread before its "get" step;
\* entry and entryOut record counter and out at the moment of invocation.
NewFrame(h, sig, inst) ==
    [handler |-> h, sig |-> sig, on |-> inst, step |-> FirstStep(h),
     tmp |-> 0, target |-> NoInstance,
     entry |-> heap[inst].counter, entryOut |-> out]

\* Signal::emit: invoke the handlers of the slot, synchronously.
NewFrames(slot, sig, inst) ==
    [i \in 1..Len(slot) |-> NewFrame(slot[i], sig, inst)]

Emit(inst, sig) ==
    /\ frames' = NewFrames(heap[inst][sig], sig, inst) \o frames
    /\ delivered' = Append(delivered, sig)

\* A loop that delivers the next signal while a handler is still running.
LoopIdleAlways == TRUE

\* The event loop thread is between two handler invocations.
LoopIdle == frames = <<>>

\* The record of a completed invocation.
Completed(f, heapAfter, outAfter) ==
    [handler |-> f.handler, sig |-> f.sig, on |-> f.on, target |-> f.target,
     pre |-> f.entry, post |-> heapAfter[f.on].counter,
     lines |-> outAfter - f.entryOut]

\* ------------------------------------------- the lambdas of main.cpp
\* `component` inside a lambda body: the static variable, read when the body runs.
HandlerTarget == component

\* A lambda that captured counter's value when it was created, not a reference.
CounterReadStale(inst) == c0

\* counter.get(nullptr)
CounterRead(inst) == PropertyGet(inst)

\* Adding 2.
PlusValueTwo(v) == v + 2

\* Writing back the value read.
PlusValueKeep(v) == v

\* counter.get(nullptr) + 1
PlusValue(v) == v + 1

\* The plus_clicked lambda's body pasted into the minus_clicked lambda.
MinusValuePlus(v) == v + 1

\* Subtracting 2.
MinusValueTwo(v) == v - 2

\* counter.get(nullptr) - 1
MinusValue(v) == v - 1

\* The invocation on top of the stack returns.
Return(heapAfter, outAfter) ==
    /\ hist' = Append(hist, Completed(Head(frames), heapAfter, outAfter))
    /\ frames' = Tail(frames)

Running(h, step) ==
    /\ frames # <<>>
    /\ Head(frames).handler = h
    /\ Head(frames).step = step

\* A foobar lambda that also counts its invocations in counter.
FoobarBodyCounts ==
    /\ Running("foobar_lambda", "print")
    /\ out' = out + 1
    /\ heap' = PropertySet(Head(frames).on, PropertyGet(Head(frames).on) + 1)
    /\ Return(heap', out')
    /\ UNCHANGED <<pc, component, constructed, c0, runArg, runCalls,
                   delivered, registered, nset>>

\* foobar's lambda: std::cout << "Hello from C++" << std::endl;
FoobarBody ==
    /\ Running("foobar_lambda", "print")
    /\ out' = out + 1
    /\ Return(heap, out')
    /\ UNCHANGED <<pc, component, constructed, heap, c0, runArg, runCalls,
                   delivered, registered, nset>>

\* The lambda's first statements: auto &counter = component.counter; and the
\* read counter.get(nullptr), whose value the frame keeps until the write.
AfterGet(f) ==
    [f EXCEPT !.target = HandlerTarget, !.tmp = CounterRead(HandlerTarget),
              !.step = "set"]

\* plus_clicked's lambda, up to the read
PlusGet ==
    /\ Running("plus_lambda", "get")
    /\ frames' = <<AfterGet(Head(frames))>> \o Tail(frames)
    /\ UNCHANGED <<pc, component, constructed, heap, c0, runArg, runCalls, out,
                   delivered, registered, nset, hist>>

\* minus_clicked's lambda, up to the read
MinusGet ==
    /\ Running("minus_lambda", "get")
    /\ frames' = <<AfterGet(Head(frames))>> \o Tail(frames)
    /\ UNCHANGED <<pc, component, constructed, heap, c0, runArg, runCalls, out,
                   delivered, registered, nset, hist>>

\* counter.set(<value read> + 1)
PlusSet ==
    /\ Running("plus_lambda", "set")
    /\ heap' = PropertySet(Head(frames).target, PlusValue(Head(frames).tmp))
    /\ Return(heap', out)
    /\ UNCHANGED <<pc, component, constructed, c0, runArg, runCalls, out,
                   delivered, registered, nset>>

\* counter.set(<value read> - 1)
MinusSet ==
    /\ Running("minus_lambda", "set")
    /\ heap' = PropertySet(Head(frames).target, MinusValue(Head(frames).tmp))
    /\ Return(heap', out)
    /\ UNCHANGED <<pc, component, constructed, c0, runArg, runCalls, out,
                   delivered, registered, nset>>

\* ------------------------------------------------------------- main()
\* static Hello component;
CreateComponent ==
    /\ pc = "create"
    /\ constructed' = constructed + 1
    /\ component' = constructed + 1
    /\ heap' = (constructed + 1) :> NewHello(c0)
    /\ pc' = "set_foobar"
    /\ UNCHANGED <<c0, runArg, runCalls, frames, out, delivered, registered,
                   nset, hist>>

\* component.foobar.set_handler(<lambda>);
SetFoobarHandler ==
    /\ pc = "set_foobar"
    /\ set_handler(component, "foobar", "foobar_lambda")
    /\ pc' = "set_plus"
    /\ UNCHANGED <<component, constructed, c0, runArg, runCalls, frames, out,
                   delivered, hist>>

\* component.plus_clicked.set_handler(<lambda>);
SetPlusHandler ==
    /\ pc = "set_plus"
    /\ set_handler(component, "plus_clicked", "plus_lambda")
    /\ pc' = "set_minus"
    /\ UNCHANGED <<component, constructed, c0, runArg, runCalls, frames, out,
                   delivered, hist>>

\* main going on to run without attaching minus_clicked's handler.
SetMinusHandlerMissing ==
    /\ pc = "set_minus"
    /\ pc' = "run"
    /\ UNCHANGED <<component, constructed, heap, c0, runArg, runCalls, frames,
                   out, delivered, registered, nset, hist>>

\* component.minus_clicked.set_handler(<lambda>);
SetMinusHandler ==
    /\ pc = "set_minus"
    /\ set_handler(component, "minus_clicked", "minus_lambda")
    /\ pc' = "run"
    /\ UNCHANGED <<component, constructed, c0, runArg, runCalls, frames, out,
                   delivered, hist>>

\* Passing run no component.
RunArgNone == NoInstance

\* &component
RunArg == component

\* A main that calls run a second time.
CallRunAgain ==
    /\ pc = "run"
    /\ runArg' = RunArg
    /\ runCalls' = runCalls + 1
    /\ pc' = IF runCalls = 0 THEN "run" ELSE "running"
    /\ UNCHANGED <<component, constructed, heap, c0, frames, out, delivered,
                   registered, nset, hist>>

\* sixtyfps::run(&component);  the call: control passes to the event loop
CallRun ==
    /\ pc = "run"
    /\ runArg' = RunArg
    /\ runCalls' = runCalls + 1
    /\ pc' = "running"
    /\ UNCHANGED <<component, constructed, heap, c0, frames, out, delivered,
                   registered, nset, hist>>

\* The event loop delivers one signal of the component it runs.
LoopDeliver(sig) ==
    /\ pc = "running"
    /\ LoopIdle
    /\ runArg \in DOMAIN heap
    /\ Len(delivered) < MaxFirings
    /\ Emit(runArg, sig)
    /\ UNCHANGED <<pc, component, constructed, heap, c0, runArg, runCalls, out,
                   registered, nset, hist>>

\* The event loop terminates (window closed) and sixtyfps::run returns.
WindowClosed ==
    /\ pc = "running"
    /\ LoopIdle
    /\ pc' = "returned"
    /\ UNCHANGED <<component, constructed, heap, c0, runArg, runCalls, frames,
                   out, delivered, registered, nset, hist>>

\* } of main: the process exits and the static component is destroyed.
MainReturn ==
    /\ pc = "returned"
    /\ heap' = <<>>
    /\ pc' = "exited"
    /\ UNCHANGED <<component, constructed, c0, runArg, runCalls, frames, out,
                   delivered, registered, nset, hist>>

Init ==
    /\ pc = "create"
    /\ component = NoInstance
    /\ constructed = 0
    /\ heap = <<>>
    /\ c0 \in InitValues
    /\ runArg = NoInstance
    /\ runCalls = 0
    /\ frames = <<>>
    /\ out = 0
    /\ delivered = <<>>
    /\ registered = [s \in Signals |-> NoHandler]
    /\ nset = 0
    /\ hist = <<>>

Next ==
    \/ CreateComponent
    \/ SetFoobarHandler
    \/ SetPlusHandler
    \/ SetMinusHandler
    \/ CallRun
    \/ \E sig \in Signals : LoopDeliver(sig)
    \/ FoobarBody
    \/ PlusGet
    \/ PlusSet
    \/ MinusGet
    \/ MinusSet
    \/ WindowClosed
    \/ MainReturn

Spec == Init /\ [][Next]_vars

\* ------------------------------------- the Signal slot under any client
\* A client that, on one thread, calls set_handler with any of the lambdas on
\* any signal of a constructed component and emits any signal, in any order.
ClientSetHandler(sig, h) ==
    /\ pc = "any_client"
    /\ LoopIdle
    /\ nset < MaxSetHandler
    /\ set_handler(component, sig, h)
    /\ UNCHANGED <<pc, component, constructed, c0, runArg, runCalls, frames, out,
                   delivered, hist>>

ClientEmit(sig) ==
    /\ pc = "any_client"
    /\ LoopIdle
    /\ Len(delivered) < MaxEmits
    /\ Emit(component, sig)
    /\ UNCHANGED <<pc, component, constructed, heap, c0, runArg, runCalls, out,
                   registered, nset, hist>>

InitSignal ==
    /\ pc = "any_client"
    /\ component = 1
    /\ constructed = 1
    /\ c0 \in InitValues
    /\ heap = (1 :> NewHello(c0))
    /\ runArg = NoInstance
    /\ runCalls = 0
    /\ frames = <<>>
    /\ out = 0
    /\ delivered = <<>>
    /\ registered = [s \in Signals |-> NoHandler]
    /\ nset = 0
    /\ hist = <<>>

NextSignal ==
    \/ \E sig \in Signals, h \in Lambdas : ClientSetHandler(sig, h)
    \/ \E sig \in Signals : ClientEmit(sig)
    \/ FoobarBody
    \/ PlusGet
    \/ PlusSet
    \/ MinusGet
    \/ MinusSet

SpecSignal == InitSignal /\ [][NextSignal]_vars

\* ---------------------------------------------------------- properties
Live == component \in DOMAIN heap

Counter == heap[component].counter

Slot(sig) == heap[component][sig]

\* The completed invocations of lambda h.
Invocations(h) == {i \in 1..Len(hist) : hist[i].handler = h}

\* How many times signal sig has fired.
Firings(sig) == Cardinality({i \in 1..Len(delivered) : delivered[i] = sig})

\* What one firing of sig adds to counter.
Delta(sig) ==
    IF sig = "plus_clicked" THEN 1 ELSE IF sig = "minus_clicked" THEN 0 - 1 ELSE 0

PreRun == {"create", "set_foobar", "set_plus", "set_minus", "run"}

\* C1: whatever counter holds when the plus_clicked handler is invoked, the
\* invocation leaves it one greater.
C1_PlusAddsOne ==
    \A i \in Invocations("plus_lambda") : hist[i].post = hist[i].pre + 1

\* A plus_clicked invocation has completed on a counter that earlier
\* invocations had already moved off its initial value.
C1_Witness ==
    \E i \in Invocations("plus_lambda") :
        /\ hist[i].pre # c0
        /\ hist[i].post = hist[i].pre + 1

\* C2: whatever counter holds when the minus_clicked handler is invoked, the
\* invocation leaves it one smaller.
C2_MinusSubtractsOne ==
    \A i \in Invocations("minus_lambda") : hist[i].post = hist[i].pre - 1

C2_Witness ==
    \E i \in Invocations("minus_lambda") :
        /\ hist[i].pre # c0
        /\ hist[i].post = hist[i].pre - 1

\* C3: a plus_clicked invocation directly followed by a minus_clicked one, or
\* a minus_clicked one directly followed by a plus_clicked one, leaves counter
\* at the value it had before the first of the two.
C3_PlusMinusRestores ==
    \A i \in 1..(Len(hist) - 1) :
        {hist[i].handler, hist[i + 1].handler} = {"plus_lambda", "minus_lambda"}
            => hist[i + 1].post = hist[i].pre

\* Both orders have happened: plus, minus, plus.
C3_Witness ==
    /\ Len(hist) >= 3
    /\ hist[1].handler = "plus_lambda"
    /\ hist[2].handler = "minus_lambda"
    /\ hist[3].handler = "plus_lambda"
    /\ hist[2].post = c0
    /\ hist[3].post = hist[2].pre

\* C4: every invocation of the foobar handler writes exactly one line and
\* leaves counter as it found it, so the lines written so far are as many as
\* the foobar invocations completed.
C4_FoobarOneLineNoCounter ==
    /\ \A i \in Invocations("foobar_lambda") :
          /\ hist[i].lines = 1
          /\ hist[i].post = hist[i].pre
    /\ out = Cardinality(Invocations("foobar_lambda"))

\* foobar has run twice, after a handler that had changed counter.
C4_Witness ==
    /\ Len(hist) >= 3
    /\ hist[1].handler = "plus_lambda"
    /\ hist[2].handler = "foobar_lambda"
    /\ hist[3].handler = "foobar_lambda"
    /\ out = 2
    /\ Live /\ Counter = c0 + 1

\* C5: whenever the loop is between two deliveries, counter is its initial
\* value plus the number of plus_clicked firings minus the number of
\* minus_clicked firings, however many foobar firings there were.
C5_CounterIsNetFirings ==
    (Live /\ LoopIdle) =>
        Counter = c0 + Firings("plus_clicked") - Firings("minus_clicked")

\* From 0: three plus_clicked firings, then one minus_clicked firing, give 2.
C5_Witness ==
    /\ c0 = 0
    /\ delivered = <<"plus_clicked", "plus_clicked", "plus_clicked", "minus_clicked">>
    /\ LoopIdle
    /\ hist[3].post = 3
    /\ Live /\ Counter = 2

\* C7: main creates the component, attaches foobar's, plus_clicked's and
\* minus_clicked's handlers in that order and only then calls run; when run
\* starts each signal has its handler, and nothing is delivered before.
C7_AttachBeforeRun ==
    /\ pc = "create" => heap = <<>> /\ nset = 0
    /\ pc = "set_foobar" =>
          /\ Live /\ nset = 0
          /\ \A sig \in Signals : Slot(sig) = <<>>
    /\ pc = "set_plus" =>
          /\ Live /\ nset = 1
          /\ Slot("foobar") = <<"foobar_lambda">>
          /\ Slot("plus_clicked") = <<>>
          /\ Slot("minus_clicked") = <<>>
    /\ pc = "set_minus" =>
          /\ Live /\ nset = 2
          /\ Slot("foobar") = <<"foobar_lambda">>
          /\ Slot("plus_clicked") = <<"plus_lambda">>
          /\ Slot("minus_clicked") = <<>>
    /\ pc \in {"run", "running", "returned"} =>
          /\ Live /\ nset = 3
          /\ Slot("foobar") = <<"foobar_lambda">>
          /\ Slot("plus_clicked") = <<"plus_lambda">>
          /\ Slot("minus_clicked") = <<"minus_lambda">>
    /\ pc \in PreRun =>
          /\ runCalls = 0
          /\ delivered = <<>> /\ frames = <<>> /\ hist = <<>>

\* run has just started: nothing delivered yet, the three handlers attached.
C7_Witness ==
    /\ pc = "running" /\ runCalls = 1 /\ delivered = <<>>
    /\ Live
    /\ Slot("foobar") = <<"foobar_lambda">>
    /\ Slot("plus_clicked") = <<"plus_lambda">>
    /\ Slot("minus_clicked") = <<"minus_lambda">>

\* C8: at most one Hello is ever constructed; from its construction until the
\* process exits it is the one live instance; it is the instance passed to
\* run, the instance every signal is emitted on and the instance whose counter
\* the plus_clicked and minus_clicked handlers read and write.
C8_OneInstance ==
    /\ constructed <= 1
    /\ Cardinality(DOMAIN heap) <= 1
    /\ pc \notin {"create", "exited"} => constructed = 1 /\ DOMAIN heap = {component}
    /\ runCalls > 0 => runArg = component
    /\ \A k \in 1..Len(frames) :
          /\ frames[k].on = component
          /\ frames[k].on \in DOMAIN heap
          /\ frames[k].step = "set" => frames[k].target = component
    /\ \A i \in 1..Len(hist) :
          /\ hist[i].on = component
          /\ hist[i].handler # "foobar_lambda" => hist[i].target = component

\* Both counter handlers have acted on the instance run was given.
C8_Witness ==
    /\ pc = "running"
    /\ Live /\ runArg = component
    /\ \E i \in Invocations("plus_lambda") : hist[i].target = runArg
    /\ \E i \in Invocations("minus_lambda") : hist[i].target = runArg
    /\ frames # <<>> /\ frames[1].step = "set" /\ frames[1].target = runArg

\* C6 (SpecSignal): a slot never holds more than one handler, and it is the
\* handler of the latest set_handler call for that signal; every invocation in
\* progress is an invocation of that latest handler, so a handler that was
\* replaced is not invoked by any later firing.
C6_SingleSlotReplaces ==
    /\ \A sig \in Signals :
          /\ Len(Slot(sig)) <= 1
          /\ Slot(sig) =
                IF registered[sig] = NoHandler THEN <<>> ELSE <<registered[sig]>>
    /\ Len(frames) <= 1
    /\ \A k \in 1..Len(frames) : frames[k].handler = registered[frames[k].sig]

\* A signal fired and ran one handler; the handler was then replaced by a
\* different one; the signal fired again and the new handler is running.
C6_Witness ==
    /\ nset = 2
    /\ Len(frames) = 1
    /\ \E i \in 1..Len(hist) :
          /\ hist[i].sig = frames[1].sig
          /\ hist[i].handler # frames[1].handler
    /\ Cardinality({sig \in Signals : registered[sig] # NoHandler}) = 1

\* C9: at most one handler invocation is in progress at any time; between its
\* read and its write nobody else has written counter; invocations complete in
\* the order their signals were delivered; counter changes only inside handler
\* invocations, each firing contributing exactly its own +1, -1 or 0.
C9_HandlersRunOneAtATime ==
    /\ Len(frames) <= 1
    /\ Len(hist) + Len(frames) = Len(delivered)
    /\ \A k \in 1..Len(frames) :
          /\ frames[k].sig = delivered[Len(delivered)]
          /\ frames[k].entry = heap[frames[k].on].counter
          /\ frames[k].step = "set" =>
                frames[k].tmp = heap[frames[k].target].counter
    /\ \A i \in 1..Len(hist) :
          /\ hist[i].sig = delivered[i]
          /\ hist[i].pre = (IF i = 1 THEN c0 ELSE hist[i - 1].post)
          /\ hist[i].post = hist[i].pre + Delta(hist[i].sig)
    /\ Live => Counter = (IF hist = <<>> THEN c0 ELSE hist[Len(hist)].post)

\* A second counter handler is between its read and its write, after a first
\* one has completed and changed counter.
C9_Witness ==
    /\ Len(hist) >= 2
    /\ hist[1].sig = "plus_clicked"
    /\ hist[2].sig = "minus_clicked"
    /\ Len(frames) = 1
    /\ frames[1].sig = "plus_clicked"
    /\ frames[1].step = "set"
    /\ frames[1].tmp = c0

\* Where main is, against how often run has been called and whether a handler
\* is in progress.
C10_Positions ==
    /\ runCalls <= 1
    /\ pc \in PreRun => runCalls = 0
    /\ pc \in {"running", "returned", "exited"} => runCalls = 1
    /\ frames # <<>> => pc = "running"

\* What one step may do to main's position, and when signals are delivered
\* and handlers run.
C10_Step ==
    /\ (pc # "running" /\ pc' = "running") => (pc = "run" /\ runCalls = 0)
    /\ pc = "running" => pc' \in {"running", "returned"}
    /\ pc \in {"returned", "exited"} => pc' \in {"returned", "exited"}
    /\ (delivered' # delivered \/ hist' # hist \/ frames' # frames) =>
          (pc = "running" /\ pc' = "running")

\* C10: run is called once; before the call the program is not running and
\* nothing is delivered; once running, the program never gets back to a
\* position before the call (it leaves the loop only when the loop itself
\* terminates, and then exits); signals are delivered and handlers run only
\* while it is running.
C10_RunningOnce == [](C10_Positions) /\ [][C10_Step]_vars

\* The program is running and a handler has been invoked and has completed.
C10_Witness ==
    /\ pc = "running"
    /\ runCalls = 1
    /\ hist # <<>>

====
